---- MODULE Spec2Model ----
(***************************************************************************)
(* A model of the controllable space ship scene: CompoundObject.move and   *)
(* #applyRotation (src/src/js/CompoundObject.js) and Main's collision      *)
(* check and update/display loop (src/unnamed/part_003).                   *)
(*                                                                         *)
(* Arithmetic.  JavaScript numbers are modelled as exact reals of the form *)
(* a + b*sqrt(3), held as the pair <<a, b>> of integers.  Every length is  *)
(* held times 4 (a coordinate c is the number 4c, a raioCol r the integer  *)
(* 4r), so a product of two sines times a radius stays integral.  Angles   *)
(* are integers counting units of pi/18 and only the multiples of pi/6     *)
(* occur; their sines and cosines are exactly 0, 1/2, sqrt(3)/2 and 1 up   *)
(* to sign.  The clock's delta is an integer counting units of pi/18       *)
(* seconds, so that _MOVE_STEP * delta is an angle of the grid.            *)
(***************************************************************************)
EXTENDS Integers, Sequences, FiniteSets

VARIABLES
  primaryPos,       \* CompoundObject.#primary.position, <<x, y, z>>
  groupPos,         \* CompoundObject.#group.position, <<x, y, z>>
  radius,           \* the radius handed to move (Main: _EARTH_RADIUS * 1.2)
  compoundRaioCol,  \* Main.#compound.raioCol
  litter,           \* Main.#litter, the array of debris objects
  scene,            \* the debris objects that are children of Main.#scene
  pressed,          \* the direction keys the KeyController holds as pressed
  pc,               \* position in animate: 0 outside, k before statement k
  pending,          \* animate callbacks requested and not yet run
  frameLog,         \* the statements animate has run in the current frame
  tested,           \* the debris objects the last #checkCollision tested
  frameStart,       \* position and scene when the current #update started
  atCall,           \* position, litter and scene when #checkCollision ran
  rendered,         \* what the current frame's #display rendered
  run,              \* the last one or two moves of the same direction
  undo              \* the last move, or a move and the opposite move after it

vars == <<primaryPos, groupPos, radius, compoundRaioCol, litter, scene,
          pressed, pc, pending, frameLog, tested, frameStart, atCall,
          rendered, run, undo>>

-----------------------------------------------------------------------------
(* Bounds of the model *)

MaxRadius == 2
MaxDelta == 2
MaxRaioCol == 2
NumLitter == 3
MaxKeys == 2

_MOVE_STEP == 3

Radii == 1..MaxRadius
Deltas == 0..MaxDelta
Directions == {"UP", "DOWN", "LEFT", "RIGHT"}

-----------------------------------------------------------------------------
(* Numbers a + b*sqrt(3) *)

Zero == <<0, 0>>
Whole(k) == <<k, 0>>
Add(u, v) == <<u[1] + v[1], u[2] + v[2]>>
Neg(u) == <<-u[1], -u[2]>>
Sub(u, v) == Add(u, Neg(v))
Mul(u, v) == <<u[1] * v[1] + 3 * u[2] * v[2], u[1] * v[2] + u[2] * v[1]>>
Scale(k, u) == <<k * u[1], k * u[2]>>

\* The sign of a + b*sqrt(3): -1, 0 or 1.
Sgn(u) ==
  LET a == u[1]
      b == u[2]
  IN IF a = 0 /\ b = 0 THEN 0
     ELSE IF a >= 0 /\ b >= 0 THEN 1
     ELSE IF a <= 0 /\ b <= 0 THEN -1
     ELSE IF a > 0 THEN (IF a * a > 3 * b * b THEN 1 ELSE -1)
     ELSE (IF 3 * b * b > a * a THEN 1 ELSE -1)

Leq(u, v) == Sgn(Sub(v, u)) >= 0
Less(u, v) == Sgn(Sub(v, u)) > 0
Abs(u) == IF Sgn(u) < 0 THEN Neg(u) ELSE u
MinNum(u, v) == IF Leq(u, v) THEN u ELSE v
MaxNum(u, v) == IF Leq(u, v) THEN v ELSE u

Zero3 == <<Zero, Zero, Zero>>

-----------------------------------------------------------------------------
(* Math.sin, Math.cos, Math.atan2, Math.acos on the grid of angles *)

PI == 18
GridStep == PI \div 6

\* 2*sin of the multiples of pi/6, from 0 to 11*pi/6.
SinTable ==
  << <<0, 0>>, <<1, 0>>, <<0, 1>>, <<2, 0>>, <<0, 1>>, <<1, 0>>,
     <<0, 0>>, <<-1, 0>>, <<0, -1>>, <<-2, 0>>, <<0, -1>>, <<-1, 0>> >>

\* 2*Math.sin(a) and 2*Math.cos(a).
Sin2(a) == SinTable[((a % (2 * PI)) \div GridStep) + 1]
Cos2(a) == Sin2(a + PI \div 2)

\* The angles Math.atan2 returns, (-pi, pi], and Math.acos returns, [0, pi].
AzimuthGrid == {GridStep * k : k \in -5..6}
PolarGrid == {GridStep * k : k \in 0..6}

\* Math.atan2(x, z): the angle t of (-pi, pi] with x = r sin t, z = r cos t,
\* r > 0; and 0 when x = z = 0.
Atan2(x, z) ==
  IF x = Zero /\ z = Zero THEN 0
  ELSE CHOOSE t \in AzimuthGrid :
         /\ Sub(Mul(x, Cos2(t)), Mul(z, Sin2(t))) = Zero
         /\ Sgn(Add(Mul(x, Sin2(t)), Mul(z, Cos2(t)))) > 0

\* Math.max(-1, Math.min(1, y / radius)), held times 4*radius.
ClampRatio(y, r) == MaxNum(Whole(-4 * r), MinNum(Whole(4 * r), y))

\* Math.acos(c / (4r)): the angle p of [0, pi] with cos p = c / (4r).
Acos(c, r) == CHOOSE p \in PolarGrid : Scale(2 * r, Cos2(p)) = c

\* The positions whose angles lie on the grid.
OnGrid(pos, r) ==
  /\ \E p \in PolarGrid : Scale(2 * r, Cos2(p)) = ClampRatio(pos[2], r)
  /\ \/ pos[1] = Zero /\ pos[3] = Zero
     \/ \E t \in AzimuthGrid :
          /\ Sub(Mul(pos[1], Cos2(t)), Mul(pos[3], Sin2(t))) = Zero
          /\ Sgn(Add(Mul(pos[1], Sin2(t)), Mul(pos[3], Cos2(t)))) > 0

-----------------------------------------------------------------------------
(* CompoundObject *)

\* A faulty rotation: the height is taken from the sine of phi.
applyRotation_sinHeight(r, theta, phi) ==
  << Mul(Sin2(phi), Scale(r, Sin2(theta))),
     Scale(2 * r, Sin2(phi)),
     Mul(Sin2(phi), Scale(r, Cos2(theta))) >>

\* #applyRotation(radius, theta, phi): the primary's new position
\*   x = sin(phi) * radius * sin(theta)
\*   y = cos(phi) * radius
\*   z = sin(phi) * radius * cos(theta)
applyRotation(r, theta, phi) ==
  << Mul(Sin2(phi), Scale(r, Sin2(theta))),
     Scale(2 * r, Cos2(phi)),
     Mul(Sin2(phi), Scale(r, Cos2(theta))) >>

\* A faulty move: UP and DOWN turn the azimuth, LEFT and RIGHT the polar angle.
move_swappedAngles(pos, direction, delta, r) ==
  LET theta == Atan2(pos[1], pos[3])
      phi == Acos(ClampRatio(pos[2], r), r)
  IN CASE direction = "UP" -> applyRotation(r, theta + _MOVE_STEP * delta, phi)
       [] direction = "DOWN" -> applyRotation(r, theta - _MOVE_STEP * delta, phi)
       [] direction = "LEFT" -> applyRotation(r, theta, phi + _MOVE_STEP * delta)
       [] direction = "RIGHT" -> applyRotation(r, theta, phi - _MOVE_STEP * delta)
       [] OTHER -> pos

\* move(direction, delta, radius): the primary's position after the call.
move(pos, direction, delta, r) ==
  LET theta == Atan2(pos[1], pos[3])
      phi == Acos(ClampRatio(pos[2], r), r)
  IN CASE direction = "UP" -> applyRotation(r, theta, phi + _MOVE_STEP * delta)
       [] direction = "DOWN" -> applyRotation(r, theta, phi - _MOVE_STEP * delta)
       [] direction = "LEFT" -> applyRotation(r, theta + _MOVE_STEP * delta, phi)
       [] direction = "RIGHT" -> applyRotation(r, theta - _MOVE_STEP * delta, phi)
       [] OTHER -> pos

\* move never touches #group: its position is the one the constructor gave.
groupAfterMove(g) == g

-----------------------------------------------------------------------------
(* Positions the scene builder and the claims speak of *)

\* The point of the sphere of radius r with azimuth t and polar angle p.
SpherePoint(r, t, p) ==
  << Mul(Sin2(p), Scale(r, Sin2(t))),
     Scale(2 * r, Cos2(p)),
     Mul(Sin2(p), Scale(r, Cos2(t))) >>

SpherePoints(r) == {SpherePoint(r, t, p) : t \in AzimuthGrid, p \in PolarGrid}

\* 16 * (x^2 + y^2 + z^2)
NormSq(pos) == Add(Add(Mul(pos[1], pos[1]), Mul(pos[2], pos[2])), Mul(pos[3], pos[3]))

OnSphere(pos, r) == NormSq(pos) = Whole(16 * r * r)

NoRun == [n |-> 0, dir |-> "UP", d1 |-> 0, d2 |-> 0, start |-> Zero3]
NoSnapshot == [valid |-> FALSE, pos |-> Zero3, litter |-> <<>>, scene |-> {}]

-----------------------------------------------------------------------------
(* Main: the debris, #checkCollision, #update, animate *)

\* Debris object d of the scene builder: a point of the sphere of radius
\* _EARTH_RADIUS * 1.2, and the raioCol computed from its size.
DebrisAzimuth(d) == (2 * GridStep * (d - 1)) % (2 * PI)
DebrisPolar(d) == (PI \div 2) + GridStep * ((d \div 3) % 3)
DebrisPos(d, r) == SpherePoint(r, DebrisAzimuth(d), DebrisPolar(d))
DebrisRaioCol(d, r) == IF d % 3 = 1 THEN 4 * r - MaxRaioCol ELSE 1

\* The square of the distance #checkCollision computes (times 16):
\*   x = |x1 - x2|, y = |y1 - y2|, z = |z1 - z2|
\*   distance = 0, or sqrt(x*x + y*y + z*z) if one of x, y, z is not 0
DistanceSq(p, q) ==
  LET x == Abs(Sub(p[1], q[1]))
      y == Abs(Sub(p[2], q[2]))
      z == Abs(Sub(p[3], q[3]))
  IN IF x # Zero \/ y # Zero \/ z # Zero
     THEN Add(Add(Mul(x, x), Mul(y, y)), Mul(z, z))
     ELSE Zero

\* A faulty test: the bound is exclusive.
Collides_exclusive(d, pos, r, crc) ==
  Less(DistanceSq(DebrisPos(d, r), pos),
       Whole((DebrisRaioCol(d, r) + crc) * (DebrisRaioCol(d, r) + crc)))

\* distance <= litter[i].raioCol + compound.raioCol; neither side is
\* negative, so the squares compare as the numbers do.
Collides(d, pos, r, crc) ==
  Leq(DistanceSq(DebrisPos(d, r), pos),
      Whole((DebrisRaioCol(d, r) + crc) * (DebrisRaioCol(d, r) + crc)))

\* What splice(i, 1) would leave: the array without its element i.
LitterAfterHit_splice(lit, i) ==
  SubSeq(lit, 1, i - 1) \o SubSeq(lit, i + 1, Len(lit))

\* this.#litter.slice(i, 1) builds a new array and drops it: the litter
\* array is what it was.
LitterAfterHit(lit, i) == lit

\* The for loop of #checkCollision from index i on (indices from 1).
RECURSIVE CheckLoop(_, _, _, _, _, _, _)
CheckLoop(i, lit, scn, tst, pos, r, crc) ==
  IF i > Len(lit)
  THEN [litter |-> lit, scene |-> scn, tested |-> tst]
  ELSE LET hit == Collides(lit[i], pos, r, crc)
       IN CheckLoop(i + 1,
                    IF hit THEN LitterAfterHit(lit, i) ELSE lit,
                    IF hit THEN scn \ {lit[i]} ELSE scn,
                    Append(tst, lit[i]),
                    pos, r, crc)

checkCollision(lit, scn, pos, r, crc) == CheckLoop(1, lit, scn, <<>>, pos, r, crc)

\* KeyController.processKeyPressed(context, sceneObjects, compound, delta,
\* radius): one compound.move per direction key held down.
processKeyPressed(keys, pos, delta, r) ==
  LET p1 == IF "UP" \in keys THEN move(pos, "UP", delta, r) ELSE pos
      p2 == IF "DOWN" \in keys THEN move(p1, "DOWN", delta, r) ELSE p1
      p3 == IF "LEFT" \in keys THEN move(p2, "LEFT", delta, r) ELSE p2
  IN IF "RIGHT" \in keys THEN move(p3, "RIGHT", delta, r) ELSE p3

\* A faulty update: the keys are processed before the collision check.
update_moveFirst(lit, scn, pos, keys, delta, r, crc) ==
  LET p == processKeyPressed(keys, pos, delta, r)
      c == checkCollision(lit, scn, p, r, crc)
  IN [litter |-> c.litter, scene |-> c.scene, tested |-> c.tested,
      pos |-> p, callPos |-> p]

\* #update with the clock's delta: #checkCollision, then processKeyPressed.
\* (lookAt turns the primary and leaves its position.)
update(lit, scn, pos, keys, delta, r, crc) ==
  LET c == checkCollision(lit, scn, pos, r, crc)
      p == processKeyPressed(keys, pos, delta, r)
  IN [litter |-> c.litter, scene |-> c.scene, tested |-> c.tested,
      pos |-> p, callPos |-> pos]

\* A faulty animate: the frame is displayed before it is updated.
AnimateBody_displayFirst == <<"display", "update", "requestAnimationFrame">>

\* The statements of animate, in order.
AnimateBody == <<"update", "display", "requestAnimationFrame">>

-----------------------------------------------------------------------------
(* The state after construction *)

InitScene ==
  /\ groupPos = Zero3
  /\ litter = [i \in 1..NumLitter |-> i]
  /\ scene = 1..NumLitter
  /\ pressed = {}
  /\ pc = 0
  /\ pending = 1
  /\ frameLog = <<>>
  /\ tested = <<>>
  /\ frameStart = NoSnapshot
  /\ atCall = NoSnapshot
  /\ rendered = NoSnapshot
  /\ run = NoRun
  /\ undo = NoRun

\* Main: the space ship starts on the sphere of the radius later handed to move.
Init ==
  /\ radius = MaxRadius
  /\ primaryPos \in SpherePoints(radius)
  /\ compoundRaioCol = MaxRaioCol
  /\ InitScene

\* CompoundObject.move as a function: any position whose angles are on the
\* grid, on the sphere of the radius handed to move or not.
InitMove ==
  /\ radius \in Radii
  /\ primaryPos \in {p \in UNION {SpherePoints(s) : s \in 1..(MaxRadius + 1)} :
                       OnGrid(p, radius)}
  /\ compoundRaioCol = MaxRaioCol
  /\ InitScene

-----------------------------------------------------------------------------
(* Main: the frames *)

Snapshot(pos, lit, scn) == [valid |-> TRUE, pos |-> pos, litter |-> lit, scene |-> scn]

AtStatement(name) == pc \in 1..Len(AnimateBody) /\ AnimateBody[pc] = name

\* The browser runs a requested animate callback.
FrameCallback ==
  /\ pc = 0
  /\ pending > 0
  /\ pc' = 1
  /\ pending' = pending - 1
  /\ UNCHANGED <<primaryPos, groupPos, radius, compoundRaioCol, litter, scene,
                 pressed, frameLog, tested, frameStart, atCall, rendered, run, undo>>

\* this.#update()
Update ==
  /\ AtStatement("update")
  /\ \E delta \in Deltas :
       \E u \in {update(litter, scene, primaryPos, pressed, delta, radius,
                        compoundRaioCol)} :
          /\ litter' = u.litter
          /\ scene' = u.scene
          /\ tested' = u.tested
          /\ primaryPos' = u.pos
          /\ atCall' = Snapshot(u.callPos, litter, scene)
  /\ frameStart' = Snapshot(primaryPos, litter, scene)
  /\ frameLog' = Append(frameLog, "update")
  /\ pc' = pc + 1
  /\ UNCHANGED <<groupPos, radius, compoundRaioCol, pressed, pending, rendered, run, undo>>

\* this.#display()
Display ==
  /\ AtStatement("display")
  /\ rendered' = Snapshot(primaryPos, litter, scene)
  /\ frameLog' = Append(frameLog, "display")
  /\ pc' = pc + 1
  /\ UNCHANGED <<primaryPos, groupPos, radius, compoundRaioCol, litter, scene,
                 pressed, pending, tested, frameStart, atCall, run, undo>>

\* requestAnimationFrame(this.animate)
RequestAnimationFrame ==
  /\ AtStatement("requestAnimationFrame")
  /\ pending' = pending + 1
  /\ frameLog' = Append(frameLog, "requestAnimationFrame")
  /\ pc' = pc + 1
  /\ UNCHANGED <<primaryPos, groupPos, radius, compoundRaioCol, litter, scene,
                 pressed, tested, frameStart, atCall, rendered, run, undo>>

\* animate returns; what was recorded of the frame is dropped.
AnimateReturn ==
  /\ pc = Len(AnimateBody) + 1
  /\ pc' = 0
  /\ frameLog' = <<>>
  /\ tested' = <<>>
  /\ frameStart' = NoSnapshot
  /\ atCall' = NoSnapshot
  /\ rendered' = NoSnapshot
  /\ UNCHANGED <<primaryPos, groupPos, radius, compoundRaioCol, litter, scene,
                 pressed, pending, run, undo>>

\* The keydown and keyup listeners, which run between two frames.
KeyDown ==
  /\ pc = 0
  /\ Cardinality(pressed) < MaxKeys
  /\ \E k \in Directions \ pressed : pressed' = pressed \cup {k}
  /\ UNCHANGED <<primaryPos, groupPos, radius, compoundRaioCol, litter, scene,
                 pc, pending, frameLog, tested, frameStart, atCall, rendered, run, undo>>

KeyUp ==
  /\ pc = 0
  /\ \E k \in pressed : pressed' = pressed \ {k}
  /\ UNCHANGED <<primaryPos, groupPos, radius, compoundRaioCol, litter, scene,
                 pc, pending, frameLog, tested, frameStart, atCall, rendered, run, undo>>

Next ==
  \/ FrameCallback
  \/ Update
  \/ Display
  \/ RequestAnimationFrame
  \/ AnimateReturn
  \/ KeyDown
  \/ KeyUp

Spec == Init /\ [][Next]_vars

-----------------------------------------------------------------------------
(* CompoundObject.move, called on its own *)

Opposite(direction) ==
  CASE direction = "UP" -> "DOWN"
    [] direction = "DOWN" -> "UP"
    [] direction = "LEFT" -> "RIGHT"
    [] OTHER -> "LEFT"

\* undo after a move: a move by the same delta in the direction opposite to
\* the one recorded completes a pair; any other move starts a new record.
UndoAfter(r, pos, direction, delta) ==
  IF r.n = 1 /\ direction = Opposite(r.dir) /\ delta = r.d1
  THEN [r EXCEPT !.n = 2, !.d2 = delta]
  ELSE [n |-> 1, dir |-> direction, d1 |-> delta, d2 |-> 0, start |-> pos]

RunAfter(r, pos, direction, delta) ==
  IF r.n = 1 /\ r.dir = direction
  THEN [r EXCEPT !.n = 2, !.d2 = delta]
  ELSE [n |-> 1, dir |-> direction, d1 |-> delta, d2 |-> 0, start |-> pos]

MoveStep ==
  \E direction \in Directions, delta \in Deltas :
    /\ primaryPos' = move(primaryPos, direction, delta, radius)
    /\ groupPos' = groupAfterMove(groupPos)
    /\ run' = RunAfter(run, primaryPos, direction, delta)
    /\ undo' = UndoAfter(undo, primaryPos, direction, delta)
    /\ UNCHANGED <<radius, compoundRaioCol, litter, scene, pressed, pc, pending,
                   frameLog, tested, frameStart, atCall, rendered>>

NextMove == MoveStep

SpecMove == InitMove /\ [][NextMove]_vars

-----------------------------------------------------------------------------
(* Claims about CompoundObject.move *)

StartTheta == Atan2(run.start[1], run.start[3])
StartPhi == Acos(ClampRatio(run.start[2], radius), radius)
MovedTheta ==
  CASE run.dir = "LEFT" -> StartTheta + _MOVE_STEP * run.d1
    [] run.dir = "RIGHT" -> StartTheta - _MOVE_STEP * run.d1
    [] OTHER -> StartTheta
MovedPhi ==
  CASE run.dir = "UP" -> StartPhi + _MOVE_STEP * run.d1
    [] run.dir = "DOWN" -> StartPhi - _MOVE_STEP * run.d1
    [] OTHER -> StartPhi
NowTheta == Atan2(primaryPos[1], primaryPos[3])
NowPhi == Acos(ClampRatio(primaryPos[2], radius), radius)
\* The angle of (-pi, pi] equal to a modulo 2*pi.
Azimuth(a) == CHOOSE t \in AzimuthGrid : (t - a) % (2 * PI) = 0

\* C3: once move has run, the primary is on the sphere of the radius handed
\* to move, x^2 + y^2 + z^2 = R^2, whatever the position it started from
\* (on the sphere or not), and it stays there under every further move.
C3_MoveKeepsOnSphere == run.n >= 1 => OnSphere(primaryPos, radius)

\* C3 witness: a move has run from a start that was off the sphere, with |y| > R.
C3_Witness ==
  /\ run.n >= 1
  /\ ~OnSphere(run.start, radius)
  /\ Less(Whole(4 * radius), Abs(run.start[2]))
  /\ run.d1 > 0

\* The move recorded in run did not end exactly on a pole, where x = z = 0
\* and the primary has no azimuth.
LandedOffPole == Sgn(Sin2(MovedPhi)) # 0

\* C4 as stated: from a position on the sphere, one move lands on the point
\* with angles (theta, phi +- 3 delta) or (theta +- 3 delta, phi); UP and DOWN
\* keep the azimuth of the primary, LEFT and RIGHT keep its polar angle and y.
\* Stated for the moves that do not end exactly on a pole.
C4_Original ==
  (run.n = 1 /\ OnSphere(run.start, radius) /\ LandedOffPole) =>
    /\ primaryPos = SpherePoint(radius, MovedTheta, MovedPhi)
    /\ run.dir \in {"UP", "DOWN"} => NowTheta = StartTheta
    /\ run.dir \in {"LEFT", "RIGHT"} =>
         (NowPhi = StartPhi /\ primaryPos[2] = run.start[2])

\* C4 amended: the landing point and the LEFT/RIGHT part as stated; UP and
\* DOWN keep the azimuth when sin(phi') > 0 and turn it by pi when
\* sin(phi') < 0, phi' being phi + 3 delta or phi - 3 delta.
C4_MoveLandsOnAngles ==
  (run.n = 1 /\ OnSphere(run.start, radius)) =>
    /\ primaryPos = SpherePoint(radius, MovedTheta, MovedPhi)
    /\ run.dir \in {"LEFT", "RIGHT"} =>
         (NowPhi = StartPhi /\ primaryPos[2] = run.start[2])
    /\ run.dir \in {"UP", "DOWN"} =>
         /\ Sgn(Sin2(MovedPhi)) > 0 => NowTheta = StartTheta
         /\ Sgn(Sin2(MovedPhi)) < 0 => NowTheta = Azimuth(StartTheta + PI)

\* C4 witness: an UP or DOWN move from the sphere has carried the polar angle
\* past a pole, and the azimuth has turned.
C4_Witness ==
  /\ run.n = 1
  /\ OnSphere(run.start, radius)
  /\ run.dir \in {"UP", "DOWN"}
  /\ Sgn(Sin2(MovedPhi)) < 0
  /\ NowTheta # StartTheta

\* C7: from a position on the sphere, two consecutive moves in one direction
\* with deltas d1 and d2 leave the primary where a single move in that
\* direction with delta d1 + d2 leaves it.  Stated for the runs that neither
\* start on a pole nor pass exactly through one after the first move.
C7_MovesAddUp ==
  (/\ run.n = 2
   /\ OnSphere(run.start, radius)
   /\ Sgn(Sin2(StartPhi)) # 0
   /\ LandedOffPole) =>
    primaryPos = move(run.start, run.dir, run.d1 + run.d2, radius)

\* C8: a move that displaces the compound object changes the position values
\* of its group.
C8_MoveChangesGroup ==
  [][(primaryPos' # primaryPos) => (groupPos' # groupPos)]_vars

-----------------------------------------------------------------------------
(* Claims about the collision check and the frames *)

\* 16 times the square of the Euclidean distance of two positions.
EuclidSq(p, q) ==
  LET dx == Sub(p[1], q[1])
      dy == Sub(p[2], q[2])
      dz == Sub(p[3], q[3])
  IN Add(Add(Mul(dx, dx), Mul(dy, dy)), Mul(dz, dz))

ReachSq(d) ==
  Whole((DebrisRaioCol(d, radius) + compoundRaioCol)
          * (DebrisRaioCol(d, radius) + compoundRaioCol))

\* C1: after a call of #checkCollision, every debris object of the litter
\* list whose distance to the primary (as it was at the call) is at most its
\* raioCol plus the compound's raioCol is out of the scene; the bound is
\* inclusive and the distance 0 counts.
C1_CollidingDebrisRemoved ==
  atCall.valid =>
    \A i \in 1..Len(atCall.litter) :
      Leq(EuclidSq(DebrisPos(atCall.litter[i], radius), atCall.pos),
          ReachSq(atCall.litter[i]))
        => atCall.litter[i] \notin scene

\* C1 witness: one call has removed a debris object at exactly the bound
\* and another at distance 0.
C1_Witness ==
  /\ atCall.valid
  /\ \E d \in atCall.scene \ scene :
       /\ EuclidSq(DebrisPos(d, radius), atCall.pos) = ReachSq(d)
       /\ ReachSq(d) # Zero
  /\ \E d \in atCall.scene \ scene :
       EuclidSq(DebrisPos(d, radius), atCall.pos) = Zero

\* C2: what a frame displays holds no debris object that was in the scene
\* and within collision distance of the primary when the frame's update
\* started.
C2_NearAtFrameStartGoneAtDisplay ==
  (rendered.valid /\ frameStart.valid) =>
    \A d \in frameStart.scene :
      Collides(d, frameStart.pos, radius, compoundRaioCol) => d \notin rendered.scene

\* C2 witness: a frame is displayed whose update removed a debris object and
\* then moved the primary.
C2_Witness ==
  /\ rendered.valid
  /\ frameStart.valid
  /\ \E d \in frameStart.scene :
       Collides(d, frameStart.pos, radius, compoundRaioCol) /\ d \notin rendered.scene
  /\ rendered.pos # frameStart.pos

\* C5: one call of #checkCollision tests the elements of the litter list,
\* as the list was at the call, once each and in order.
C5_EveryElementTestedOnce ==
  atCall.valid => tested = atCall.litter

\* C5 witness: a call has tested the whole list while two of its elements
\* collided.
C5_Witness ==
  /\ atCall.valid
  /\ Len(tested) = NumLitter
  /\ Cardinality(atCall.scene \ scene) >= 2

\* C6: a frame runs update, then display, then requests exactly one more
\* animate; display does not run before the frame's update; between two
\* frames one animate is always requested.
C6_UpdateDisplayRequest ==
  /\ pc = 0 => pending = 1
  /\ pc > 0 =>
       /\ frameLog = SubSeq(<<"update", "display", "requestAnimationFrame">>, 1, pc - 1)
       /\ pending = (IF pc = 4 THEN 1 ELSE 0)
  /\ rendered.valid => frameStart.valid

\* C6 witness: a frame has run its three statements, its update having
\* removed a debris object.
C6_Witness ==
  /\ pc = 4
  /\ pending = 1
  /\ frameLog = <<"update", "display", "requestAnimationFrame">>
  /\ scene # 1..NumLitter

\* C9: after a call of #checkCollision the litter list holds exactly the
\* debris objects still in the scene.
C9_LitterIsScene ==
  atCall.valid => {litter[i] : i \in 1..Len(litter)} = scene

\* C10: what a frame displays holds no debris object within collision
\* distance of the primary as displayed.
C10_NoCollisionDisplayed ==
  rendered.valid =>
    \A d \in rendered.scene :
      ~Leq(EuclidSq(DebrisPos(d, radius), rendered.pos), ReachSq(d))

-----------------------------------------------------------------------------
(* Opposite moves *)

UndoStartPhi == Acos(ClampRatio(undo.start[2], radius), radius)
\* The polar angle the first move of the pair handed to #applyRotation.
UndoMidPhi ==
  CASE undo.dir = "UP" -> UndoStartPhi + _MOVE_STEP * undo.d1
    [] undo.dir = "DOWN" -> UndoStartPhi - _MOVE_STEP * undo.d1
    [] OTHER -> UndoStartPhi

\* C11: from a position on the sphere, a move followed by the opposite move
\* with the same delta and radius brings the primary back to where it was,
\* also when the first move carries the polar angle past a pole.  Stated for
\* the pairs that neither start on a pole nor pass exactly through one.
C11_OppositeMovesCancel ==
  (/\ undo.n = 2
   /\ OnSphere(undo.start, radius)
   /\ Sgn(Sin2(UndoStartPhi)) # 0
   /\ Sgn(Sin2(UndoMidPhi)) # 0) =>
    primaryPos = undo.start

\* The part of C11 the code keeps: the pairs whose first move leaves the
\* polar angle strictly between 0 and pi.
C11_CancelAwayFromPoles ==
  (/\ undo.n = 2
   /\ OnSphere(undo.start, radius)
   /\ Sgn(Sin2(UndoStartPhi)) # 0
   /\ Sgn(Sin2(UndoMidPhi)) > 0) =>
    primaryPos = undo.start

====
